---- MODULE Spec2Model ----
(***************************************************************************)
(* Guest-house booking portal (src/src/App.jsx).                           *)
(*                                                                         *)
(* The model covers the booking form (handleSubmit), the public status     *)
(* lookup (handleSearch), the admin dashboard (snapshot listener and       *)
(* handleStatusChange) and sendEmailNotification, over the two Firestore   *)
(* collections `bookings` and `statusLookup`, and the email endpoint       *)
(* (handler of src/unnamed/part_000).                                      *)
(*                                                                         *)
(* Strings that matter are modelled as sequences of symbols: symbol SP is  *)
(* a whitespace character, every other symbol is a block of non-blank      *)
(* characters.  An application id is the one-symbol string <<i>>.          *)
(* An async handler is split at its `await`: the part before the await is  *)
(* one action, each outcome of the awaited call is another.                *)
(***************************************************************************)
EXTENDS Integers, Sequences, FiniteSets, TLC

\* ---------------------------------------------------------------- bounds
MaxBookings == 2    \* documents in the bookings collection
MaxEmails   == 3    \* commits (each followed by one notification) in one run
MaxRequests == 2    \* requests the email endpoint receives in one run

\* ------------------------------------------------------------- constants
SP       == 0                      \* a whitespace symbol
MsPerDay == 86400000
NaN      == -1                     \* stands for the time value of an invalid Date

Ids      == {1, 2}                 \* two blocks of non-blank characters
AppIds   == {<<i>> : i \in Ids}    \* strings generateApplicationId returns
Times    == {0, 1}                 \* instants of the wall clock
DocIds   == 1..MaxBookings         \* auto-generated Firestore document ids
Dates    == {1, 2, 3}              \* calendar days, in order
Admins   == {1, 2}                 \* two admin dashboard sessions
Emails   == {"a@x.com", "b@x.com"}
Symbols  == {SP} \cup Ids

Statuses      == {"Pending", "Approved", "Rejected"}
StatusOptions == {"Pending", "Approved", "Rejected"}

VARIABLES
    bookings,        \* collection artifacts/{appId}/public/data/bookings
    statusLookup,    \* collection artifacts/{appId}/public/data/statusLookup
    now,             \* wall clock
    formData,        \* BookingForm state
    formError,
    formSuccess,
    formLoading,
    formPending,     \* <<>> or <<batch data>> while handleSubmit awaits commit
    formRetry,       \* history: the last call of handleSubmit resubmitted the
                     \* inputs kept after a rejected commit
    searchTerm,      \* BookingStatus state
    searchBooking,
    searchError,
    searchLoading,
    searchPending,   \* <<>> or <<key>> while handleSearch awaits getDoc
    adminBookings,   \* AdminDashboard state, one per session
    adminPending,    \* <<>> or <<op>> while handleStatusChange awaits commit
    adminError,
    adminLoading,
    adminMounted,    \* the AdminDashboard component is mounted
    adminListening,  \* its onSnapshot listener is attached
    emails,          \* requests made by sendEmailNotification, in order
    emailWaiting,    \* positions in emails whose fetch has not settled
    console,         \* the console.error calls made so far, by call site
    req,             \* the email endpoint: <<>> or <<request in hand or last handled>>
    res,             \* status codes sent in answer to it
    mailApi,         \* sendTransacEmail calls made for it, with their outcome
    handled          \* requests received so far

storeVars  == <<bookings, statusLookup>>
formVars   == <<formData, formError, formSuccess, formLoading, formPending, formRetry>>
searchVars == <<searchTerm, searchBooking, searchError, searchLoading, searchPending>>
adminVars  == <<adminBookings, adminPending, adminError, adminLoading,
               adminMounted, adminListening>>
mountVars  == <<adminMounted, adminListening>>
mailVars   == <<emails, emailWaiting>>
handlerVars == <<req, res, mailApi, handled>>
vars == <<bookings, statusLookup, now, formData, formError, formSuccess,
          formLoading, formPending, formRetry, searchTerm, searchBooking, searchError,
          searchLoading, searchPending, adminBookings, adminPending, adminError,
          adminLoading, adminMounted, adminListening,
          emails, emailWaiting, console, req, res, mailApi, handled>>

\* ------------------------------------------------------------ pure parts

\* new Date('YYYY-MM-DD') : milliseconds since the epoch, NaN for ''
NewDate(d) == IF d = 0 THEN NaN ELSE d * MsPerDay

\* faulty variant: strict comparison, equal dates are let through
DateLess(a, b) == IF a = NaN \/ b = NaN THEN FALSE ELSE a < b

\* a <= b on the values of two Date objects; false when either is NaN
DateLeq(a, b) == IF a = NaN \/ b = NaN THEN FALSE ELSE a <= b

\* String.prototype.trim
RECURSIVE TrimLeft(_)
TrimLeft(s) == IF s # <<>> /\ Head(s) = SP THEN TrimLeft(Tail(s)) ELSE s

RECURSIVE TrimRight(_)
TrimRight(s) ==
    IF s # <<>> /\ s[Len(s)] = SP THEN TrimRight(SubSeq(s, 1, Len(s) - 1)) ELSE s

Trim(s) == TrimRight(TrimLeft(s))

\* { ...doc, ...data } : fields of data override those of doc
Merge(doc, data) ==
    [f \in (DOMAIN doc) \cup (DOMAIN data) |->
        IF f \in DOMAIN data THEN data[f] ELSE doc[f]]

\* --------------------------------------------------------- the store
\* A write of a batch: kind "set" replaces the document, "update" merges
\* into an existing one.
Coll(store, w) == IF w.coll = "bookings" THEN store.bookings ELSE store.statusLookup

WriteOk(store, w) == w.kind = "set" \/ w.key \in DOMAIN Coll(store, w)

\* faulty variant: an update replaces the document like a set does
ApplyWriteReplace(store, w) ==
    LET c  == Coll(store, w)
        c2 == [k \in (DOMAIN c) \cup {w.key} |-> IF k = w.key THEN w.data ELSE c[k]]
    IN  IF w.coll = "bookings"
        THEN [store EXCEPT !.bookings = c2]
        ELSE [store EXCEPT !.statusLookup = c2]

ApplyWrite(store, w) ==
    LET c    == Coll(store, w)
        newd == IF w.kind = "set" THEN w.data ELSE Merge(c[w.key], w.data)
        c2   == [k \in (DOMAIN c) \cup {w.key} |-> IF k = w.key THEN newd ELSE c[k]]
    IN  IF w.coll = "bookings"
        THEN [store EXCEPT !.bookings = c2]
        ELSE [store EXCEPT !.statusLookup = c2]

RECURSIVE ApplyAll(_, _)
ApplyAll(store, batch) ==
    IF batch = <<>> THEN store
    ELSE ApplyAll(ApplyWrite(store, Head(batch)), Tail(batch))

\* batch.commit() resolves iff the store accepts every write
CommitAccepted(store, batch) ==
    \A i \in 1..Len(batch) : WriteOk(store, batch[i])

\* faulty variant: a rejected commit has already applied its first write
CommitBatchPartial(store, batch, ok) ==
    IF ok THEN ApplyAll(store, batch) ELSE ApplyWrite(store, Head(batch))

\* the store after batch.commit(): all writes or none
CommitBatch(store, batch, ok) ==
    IF ok THEN ApplyAll(store, batch) ELSE store

Store == [bookings |-> bookings, statusLookup |-> statusLookup]

\* ------------------------------------------------------ BookingForm
EmptyForm == [email |-> "", checkIn |-> 0, checkOut |-> 0]

\* what the user can have typed when the browser lets the form submit:
\* every input is `required`, the two dates are <input type="date">.
\* Two stays with different check-in days, one with equal dates and one
\* with the dates reversed.
FormInputs ==
    { [email |-> "a@x.com", checkIn |-> 1, checkOut |-> 2],
      [email |-> "b@x.com", checkIn |-> 2, checkOut |-> 3],
      [email |-> "a@x.com", checkIn |-> 2, checkOut |-> 2],
      [email |-> "b@x.com", checkIn |-> 3, checkOut |-> 1] }

\* generateApplicationId() : HPU-<time fragment>-<random fragment>; nothing
\* relates the value to the ids already in the store
generateApplicationId == AppIds

\* doc(bookingsCollectionRef) : a document reference with a fresh auto id
NewDocId == CHOOSE k \in DocIds :
                /\ k \notin DOMAIN bookings
                /\ \A j \in DocIds : j < k => j \in DOMAIN bookings

\* the `data` object of handleSubmit
SubmitData(fd, id, t) ==
    [email         |-> fd.email,
     checkIn       |-> fd.checkIn,
     checkOut      |-> fd.checkOut,
     status        |-> "Pending",
     applicationId |-> id,
     submittedAt   |-> t]

\* faulty variant: the applicant's email is copied into the public document
LookupDocWithEmail(data) ==
    [status |-> "Pending", checkIn |-> data.checkIn, email |-> data.email]

\* the public projection written next to the booking
LookupDoc(data) == [status |-> "Pending", checkIn |-> data.checkIn]

\* the two writes of handleSubmit's batch
SubmitBatch(p) ==
    << [coll |-> "bookings", key |-> p.docId, kind |-> "set", data |-> p.data],
       [coll |-> "statusLookup", key |-> p.data.applicationId, kind |-> "set",
        data |-> LookupDoc(p.data)] >>

SubmitEmail(data) ==
    [to |-> data.email, template |-> "booking_submitted",
     applicationId |-> data.applicationId, checkIn |-> data.checkIn]

\* new Date() read by handleSubmit: the clock has stood still or advanced
Clock == {t \in {now, now + 1} : t \in Times}

\* handleSubmit's validation: true when the input is refused
DatesRefused(fd) == DateLeq(NewDate(fd.checkOut), NewDate(fd.checkIn))

InFlight ==
    Len(formPending) + Cardinality({a \in Admins : adminPending[a] # <<>>})

\* handleSubmit, validation fails: error set, nothing else happens
SubmitInvalid(fd) ==
    /\ formPending = <<>>
    /\ DatesRefused(fd)
    /\ formData' = fd
    /\ formError' = "dates"
    /\ formSuccess' = <<>>
    /\ formLoading' = FALSE
    /\ formRetry' = FALSE
    /\ UNCHANGED <<formPending, storeVars, now, searchVars, adminVars, mailVars, console>>
    /\ UNCHANGED handlerVars

\* faulty variant: the notification goes out before the commit is awaited
SubmitStartNotifies(fd, id, t) ==
    /\ formPending = <<>>
    /\ t \in Clock
    /\ now' = t
    /\ ~DatesRefused(fd)
    /\ Cardinality(DOMAIN bookings) < MaxBookings
    /\ Len(emails) + InFlight < MaxEmails
    /\ formData' = fd
    /\ formError' = "none"
    /\ formSuccess' = <<>>
    /\ formLoading' = TRUE
    /\ formPending' = << [docId |-> NewDocId, data |-> SubmitData(fd, id, t)] >>
    /\ formRetry' = (formError = "persist" /\ formData = fd)
    /\ emails' = Append(emails, SubmitEmail(SubmitData(fd, id, t)))
    /\ emailWaiting' = emailWaiting \cup {Len(emails) + 1}
    /\ UNCHANGED <<storeVars, searchVars, adminVars, console>>
    /\ UNCHANGED handlerVars

\* handleSubmit up to `await batch.commit()`
SubmitStart(fd, id, t) ==
    /\ formPending = <<>>
    /\ t \in Clock
    /\ now' = t
    /\ ~DatesRefused(fd)
    /\ Cardinality(DOMAIN bookings) < MaxBookings
    /\ Len(emails) + InFlight < MaxEmails
    /\ formData' = fd
    /\ formError' = "none"
    /\ formSuccess' = <<>>
    /\ formLoading' = TRUE
    /\ formPending' = << [docId |-> NewDocId, data |-> SubmitData(fd, id, t)] >>
    /\ formRetry' = (formError = "persist" /\ formData = fd)
    /\ UNCHANGED <<storeVars, searchVars, adminVars, mailVars, console>>
    /\ UNCHANGED handlerVars

\* faulty variant: the handler awaits the email request before it goes on
SubmitCommitOkAwaitsEmail ==
    /\ formPending # <<>>
    /\ LET p  == formPending[1]
           st == CommitBatch(Store, SubmitBatch(p), TRUE)
       IN  /\ CommitAccepted(Store, SubmitBatch(p))
           /\ bookings' = st.bookings
           /\ statusLookup' = st.statusLookup
           /\ emails' = Append(emails, SubmitEmail(p.data))
    /\ emailWaiting' = emailWaiting \cup {Len(emails) + 1}
    /\ formPending' = <<>>
    /\ UNCHANGED <<formData, formError, formSuccess, formLoading, formRetry, now,
                   searchVars, adminVars, console>>
    /\ UNCHANGED handlerVars

\* the commit resolved: success message, notification, form reset
SubmitCommitOk ==
    /\ formPending # <<>>
    /\ LET p  == formPending[1]
           st == CommitBatch(Store, SubmitBatch(p), TRUE)
       IN  /\ CommitAccepted(Store, SubmitBatch(p))
           /\ bookings' = st.bookings
           /\ statusLookup' = st.statusLookup
           /\ formSuccess' = p.data.applicationId
           /\ emails' = Append(emails, SubmitEmail(p.data))
    /\ emailWaiting' = emailWaiting \cup {Len(emails) + 1}
    /\ formData' = EmptyForm
    /\ formLoading' = FALSE
    /\ formPending' = <<>>
    /\ UNCHANGED <<formError, formRetry, now, searchVars, adminVars, console>>
    /\ UNCHANGED handlerVars

\* the commit rejected: error message, form kept
SubmitCommitFail ==
    /\ formPending # <<>>
    /\ LET p  == formPending[1]
           st == CommitBatch(Store, SubmitBatch(p), FALSE)
       IN  /\ bookings' = st.bookings
           /\ statusLookup' = st.statusLookup
    /\ formError' = "persist"
    /\ formLoading' = FALSE
    /\ formPending' = <<>>
    /\ console' = console \cup {"submit"}
    /\ UNCHANGED <<formData, formSuccess, formRetry, now, searchVars, adminVars, mailVars>>
    /\ UNCHANGED handlerVars

\* --------------------------------------------------- AdminDashboard
\* { id: doc.id, ...doc.data() }
ViewDoc(k) == Merge([id |-> k], bookings[k])

\* Array.prototype.sort with (a, b) => new Date(b.submittedAt) - new Date(a.submittedAt):
\* stable, newest first
RECURSIVE InsertDesc(_, _)
InsertDesc(x, s) ==
    IF s = <<>> THEN <<x>>
    ELSE IF Head(s).submittedAt >= x.submittedAt
         THEN <<Head(s)>> \o InsertDesc(x, Tail(s))
         ELSE <<x>> \o s

\* faulty variant: the documents are kept in the order of the snapshot
Unsorted(s) == s

RECURSIVE SortDesc(_)
SortDesc(s) ==
    IF s = <<>> THEN <<>>
    ELSE InsertDesc(s[Len(s)], SortDesc(SubSeq(s, 1, Len(s) - 1)))

\* snapshot.docs : the documents of the collection in document-id order
RECURSIVE SnapshotDocs(_)
SnapshotDocs(ks) ==
    IF ks = {} THEN <<>>
    ELSE LET k == CHOOSE x \in ks : \A y \in ks : x >= y
         IN  Append(SnapshotDocs(ks \ {k}), ViewDoc(k))

\* the onSnapshot callback; the listener is live until its error callback
\* has run
Snapshot(a) ==
    /\ adminListening[a]
    /\ adminError[a] = "none"
    /\ adminLoading[a] \/ adminBookings[a] # SortDesc(SnapshotDocs(DOMAIN bookings))
    /\ adminBookings' = [adminBookings EXCEPT ![a] = SortDesc(SnapshotDocs(DOMAIN bookings))]
    /\ adminLoading' = [adminLoading EXCEPT ![a] = FALSE]
    /\ UNCHANGED <<storeVars, now, formVars, searchVars, adminPending, adminError, mountVars,
                   mailVars, console>>
    /\ UNCHANGED handlerVars

\* the error callback of onSnapshot
SnapshotError(a) ==
    /\ adminListening[a]
    /\ adminError[a] = "none"
    /\ adminError' = [adminError EXCEPT ![a] = "load"]
    /\ adminLoading' = [adminLoading EXCEPT ![a] = FALSE]
    /\ console' = console \cup {"snapshot"}
    /\ UNCHANGED <<storeVars, now, formVars, searchVars, adminBookings, adminPending,
                   mountVars, mailVars>>
    /\ UNCHANGED handlerVars

\* faulty variant: the cleanup of the effect leaves the listener attached
UnmountKeepsListener(a) ==
    /\ adminMounted[a]
    /\ adminMounted' = [adminMounted EXCEPT ![a] = FALSE]
    /\ UNCHANGED <<storeVars, now, formVars, searchVars, adminBookings, adminPending,
                   adminError, adminLoading, adminListening, mailVars, console>>
    /\ UNCHANGED handlerVars

\* the component is unmounted: the cleanup of the effect calls unsubscribe()
Unmount(a) ==
    /\ adminMounted[a]
    /\ adminMounted' = [adminMounted EXCEPT ![a] = FALSE]
    /\ adminListening' = [adminListening EXCEPT ![a] = FALSE]
    /\ UNCHANGED <<storeVars, now, formVars, searchVars, adminBookings, adminPending,
                   adminError, adminLoading, mailVars, console>>
    /\ UNCHANGED handlerVars

\* faulty variant: only the private booking document is updated
TransitionBatchBookingOnly(op) ==
    << [coll |-> "bookings", key |-> op.booking.id, kind |-> "update",
        data |-> [status |-> op.newStatus]] >>

\* faulty variant: only the public status document is updated
TransitionBatchLookupOnly(op) ==
    << [coll |-> "statusLookup", key |-> op.booking.applicationId, kind |-> "update",
        data |-> [status |-> op.newStatus]] >>

\* the two writes of handleStatusChange's batch
TransitionBatch(op) ==
    << [coll |-> "bookings", key |-> op.booking.id, kind |-> "update",
        data |-> [status |-> op.newStatus]],
       [coll |-> "statusLookup", key |-> op.booking.applicationId, kind |-> "update",
        data |-> [status |-> op.newStatus]] >>

TransitionTemplate(newStatus) ==
    IF newStatus = "Approved" THEN "booking_approved" ELSE "booking_rejected"

TransitionEmail(op) ==
    [to |-> op.booking.email, template |-> TransitionTemplate(op.newStatus),
     applicationId |-> op.booking.applicationId, checkIn |-> op.booking.checkIn]

\* the fields of the `booking` argument that handleStatusChange reads after
\* its early return
Captured(b) ==
    [id |-> b.id, applicationId |-> b.applicationId, email |-> b.email,
     checkIn |-> b.checkIn]

\* faulty variant: only an empty status is ignored
IgnoredChangeOnlyEmpty(booking, newStatus) == newStatus = ""

\* handleStatusChange's early return
IgnoredChange(booking, newStatus) == newStatus = "" \/ newStatus = booking.status

\* handleStatusChange returning at once: nothing happens
StatusChangeIgnored(a, i, newStatus) ==
    /\ adminPending[a] = <<>>
    /\ adminMounted[a]
    /\ ~adminLoading[a]
    /\ adminError[a] = "none"
    /\ i \in 1..Len(adminBookings[a])
    /\ IgnoredChange(adminBookings[a][i], newStatus)
    /\ UNCHANGED vars

\* faulty variant: the row of the local list shows the new status at once
StatusChangeStartOptimistic(a, i, newStatus) ==
    /\ adminPending[a] = <<>>
    /\ adminMounted[a]
    /\ ~adminLoading[a]
    /\ adminError[a] = "none"
    /\ i \in 1..Len(adminBookings[a])
    /\ ~IgnoredChange(adminBookings[a][i], newStatus)
    /\ Len(emails) + InFlight < MaxEmails
    /\ adminPending' = [adminPending EXCEPT ![a] =
                           << [booking   |-> Captured(adminBookings[a][i]),
                               newStatus |-> newStatus] >>]
    /\ adminBookings' = [adminBookings EXCEPT ![a][i].status = newStatus]
    /\ UNCHANGED <<storeVars, now, formVars, searchVars, adminError, adminLoading,
                   mountVars, mailVars, console>>
    /\ UNCHANGED handlerVars

\* handleStatusChange up to `await batch.commit()`; booking is a row of the
\* session's local list, which is rendered while no error is set, newStatus
\* the option picked in its selector
StatusChangeStart(a, i, newStatus) ==
    /\ adminPending[a] = <<>>
    /\ adminMounted[a]
    /\ ~adminLoading[a]
    /\ adminError[a] = "none"
    /\ i \in 1..Len(adminBookings[a])
    /\ ~IgnoredChange(adminBookings[a][i], newStatus)
    /\ Len(emails) + InFlight < MaxEmails
    /\ adminPending' = [adminPending EXCEPT ![a] =
                           << [booking   |-> Captured(adminBookings[a][i]),
                               newStatus |-> newStatus] >>]
    /\ UNCHANGED <<storeVars, now, formVars, searchVars, adminBookings, adminError, adminLoading,
                   mountVars,
                   mailVars, console>>
    /\ UNCHANGED handlerVars

StatusCommitOk(a) ==
    /\ adminPending[a] # <<>>
    /\ LET op == adminPending[a][1]
           st == CommitBatch(Store, TransitionBatch(op), TRUE)
       IN  /\ CommitAccepted(Store, TransitionBatch(op))
           /\ bookings' = st.bookings
           /\ statusLookup' = st.statusLookup
           /\ emails' = Append(emails, TransitionEmail(op))
    /\ emailWaiting' = emailWaiting \cup {Len(emails) + 1}
    /\ adminPending' = [adminPending EXCEPT ![a] = <<>>]
    /\ UNCHANGED <<now, formVars, searchVars, adminBookings, adminError, adminLoading,
                   mountVars, console>>
    /\ UNCHANGED handlerVars

\* faulty variant: the notification goes out although the commit was rejected
StatusCommitFailNotifies(a) ==
    /\ adminPending[a] # <<>>
    /\ emails' = Append(emails, TransitionEmail(adminPending[a][1]))
    /\ emailWaiting' = emailWaiting \cup {Len(emails) + 1}
    /\ adminPending' = [adminPending EXCEPT ![a] = <<>>]
    /\ console' = console \cup {"status"}
    /\ UNCHANGED <<storeVars, now, formVars, searchVars, adminBookings, adminError, adminLoading,
                   mountVars>>
    /\ UNCHANGED handlerVars

\* the commit rejected: console.error only
StatusCommitFail(a) ==
    /\ adminPending[a] # <<>>
    /\ LET op == adminPending[a][1]
           st == CommitBatch(Store, TransitionBatch(op), FALSE)
       IN  /\ bookings' = st.bookings
           /\ statusLookup' = st.statusLookup
    /\ adminPending' = [adminPending EXCEPT ![a] = <<>>]
    /\ console' = console \cup {"status"}
    /\ UNCHANGED <<now, formVars, searchVars, adminBookings, adminError, adminLoading,
                   mountVars, mailVars>>
    /\ UNCHANGED handlerVars

\* --------------------------------------------- sendEmailNotification
\* the fetch of request i settled with response.ok: console.log only
EmailOk(i) ==
    /\ i \in emailWaiting
    /\ emailWaiting' = emailWaiting \ {i}
    /\ UNCHANGED <<storeVars, now, formVars, searchVars, adminVars, emails, console>>
    /\ UNCHANGED handlerVars

\* faulty variant: a failed request is made again
EmailFailRetries(i) ==
    /\ i \in emailWaiting
    /\ Len(emails) < MaxEmails
    /\ emails' = Append(emails, emails[i])
    /\ emailWaiting' = (emailWaiting \ {i}) \cup {Len(emails) + 1}
    /\ console' = console \cup {"email"}
    /\ UNCHANGED <<storeVars, now, formVars, searchVars, adminVars>>
    /\ UNCHANGED handlerVars

\* faulty variant: the failure is reported by the form as a failed submit
EmailFailSurfaces(i) ==
    /\ i \in emailWaiting
    /\ emailWaiting' = emailWaiting \ {i}
    /\ console' = console \cup {"email"}
    /\ formError' = "persist"
    /\ formSuccess' = <<>>
    /\ UNCHANGED <<storeVars, now, formData, formLoading, formPending, formRetry, searchVars,
                   adminVars, emails>>
    /\ UNCHANGED handlerVars

\* the fetch of request i rejected or settled with a non-2xx response:
\* the error is caught and logged
EmailFail(i) ==
    /\ i \in emailWaiting
    /\ emailWaiting' = emailWaiting \ {i}
    /\ console' = console \cup {"email"}
    /\ UNCHANGED <<storeVars, now, formVars, searchVars, adminVars, emails>>
    /\ UNCHANGED handlerVars

\* ---------------------------------------------------- BookingStatus
\* what the user can have typed: one or two symbols
SearchTerms == UNION {[1..n -> Symbols] : n \in {1, 2}}

\* handleSearch when doc() refuses the path: the trimmed term is empty
SearchInvalidRef(t) ==
    /\ searchPending = <<>>
    /\ t # <<>>
    /\ Trim(t) = <<>>
    /\ searchTerm' = t
    /\ searchBooking' = <<>>
    /\ searchError' = "fetch"
    /\ searchLoading' = FALSE
    /\ console' = console \cup {"search"}
    /\ UNCHANGED <<searchPending, storeVars, now, formVars, adminVars, mailVars>>
    /\ UNCHANGED handlerVars

\* handleSearch up to `await getDoc(docRef)`
SearchStart(t) ==
    /\ searchPending = <<>>
    /\ t # <<>>
    /\ Trim(t) # <<>>
    /\ searchTerm' = t
    /\ searchBooking' = <<>>
    /\ searchError' = "none"
    /\ searchLoading' = TRUE
    /\ searchPending' = << Trim(t) >>
    /\ UNCHANGED <<storeVars, now, formVars, adminVars, mailVars, console>>
    /\ UNCHANGED handlerVars

\* faulty variant: the result is some document of the collection, not the one asked for
LookupResultAny(lookup, key) ==
    LET k2 == CHOOSE k \in DOMAIN lookup : TRUE
    IN  Merge([applicationId |-> k2], lookup[k2])

\* { applicationId: docSnap.id, ...docSnap.data() }
LookupResult(lookup, key) == Merge([applicationId |-> key], lookup[key])

SearchFound ==
    /\ searchPending # <<>>
    /\ searchPending[1] \in DOMAIN statusLookup
    /\ searchBooking' = << LookupResult(statusLookup, searchPending[1]) >>
    /\ searchLoading' = FALSE
    /\ searchPending' = <<>>
    /\ UNCHANGED <<searchTerm, searchError, storeVars, now, formVars, adminVars,
                   mailVars, console>>
    /\ UNCHANGED handlerVars

SearchNotFound ==
    /\ searchPending # <<>>
    /\ searchPending[1] \notin DOMAIN statusLookup
    /\ searchError' = "notfound"
    /\ searchLoading' = FALSE
    /\ searchPending' = <<>>
    /\ UNCHANGED <<searchTerm, searchBooking, storeVars, now, formVars, adminVars,
                   mailVars, console>>
    /\ UNCHANGED handlerVars

\* getDoc rejected
SearchFail ==
    /\ searchPending # <<>>
    /\ searchError' = "fetch"
    /\ searchLoading' = FALSE
    /\ searchPending' = <<>>
    /\ console' = console \cup {"search"}
    /\ UNCHANGED <<searchTerm, searchBooking, storeVars, now, formVars, adminVars,
                   mailVars>>
    /\ UNCHANGED handlerVars

\* ------------------------------------------- email endpoint (handler)
Methods   == {"POST", "GET"}
Templates == {"booking_submitted", "booking_approved", "booking_rejected", "other"}

\* req.body: absent, or { to, template, data } with data absent or present
Bodies ==
    {<<>>} \cup
    { << [to |-> e, template |-> t, data |-> d] >> :
          e \in Emails, t \in Templates,
          d \in {<<>>} \cup {<< [applicationId |-> id, checkIn |-> 1] >> : id \in AppIds} }

Requests == [method : Methods, body : Bodies]

\* faulty variant: the ids of the approval and the rejection template are swapped
TemplateIdSwapped(template) ==
    CASE template = "booking_submitted" -> 1
      [] template = "booking_approved"  -> 3
      [] template = "booking_rejected"  -> 2
      [] OTHER                          -> 0

\* the if/else chain that selects templateId; 0 stands for the thrown error
TemplateId(template) ==
    CASE template = "booking_submitted" -> 1
      [] template = "booking_approved"  -> 2
      [] template = "booking_rejected"  -> 3
      [] OTHER                          -> 0

\* no invocation of the handler is suspended at `await sendTransacEmail`
HandlerIdle == IF mailApi = <<>> THEN TRUE ELSE mailApi[1].outcome # "pending"

\* the try block throws before the mail API is called: no body to
\* destructure, an unknown template, or no data to read the name from
ThrowsBeforeSend(r) ==
    IF r.body = <<>> THEN TRUE
    ELSE IF TemplateId(r.body[1].template) = 0 THEN TRUE
    ELSE r.body[1].data = <<>>

\* a request with another method than POST: 405
HandlerReject(r) ==
    /\ HandlerIdle
    /\ handled < MaxRequests
    /\ r.method # "POST"
    /\ req' = <<r>>
    /\ res' = <<405>>
    /\ mailApi' = <<>>
    /\ handled' = handled + 1
    /\ UNCHANGED <<storeVars, now, formVars, searchVars, adminVars, mailVars, console>>

\* a POST request whose try block throws before the mail API is called: 500
HandlerThrow(r) ==
    /\ HandlerIdle
    /\ handled < MaxRequests
    /\ r.method = "POST"
    /\ ThrowsBeforeSend(r)
    /\ req' = <<r>>
    /\ res' = <<500>>
    /\ mailApi' = <<>>
    /\ handled' = handled + 1
    /\ console' = console \cup {"handler"}
    /\ UNCHANGED <<storeVars, now, formVars, searchVars, adminVars, mailVars>>

\* a POST request up to `await apiInstance.sendTransacEmail(...)`
HandlerSend(r) ==
    /\ HandlerIdle
    /\ handled < MaxRequests
    /\ r.method = "POST"
    /\ ~ThrowsBeforeSend(r)
    /\ req' = <<r>>
    /\ res' = <<>>
    /\ mailApi' = << [to         |-> r.body[1].to,
                      templateId |-> TemplateId(r.body[1].template),
                      params     |-> r.body[1].data[1],
                      outcome    |-> "pending"] >>
    /\ handled' = handled + 1
    /\ UNCHANGED <<storeVars, now, formVars, searchVars, adminVars, mailVars, console>>

\* the mail API call resolved: 200
HandlerSendOk ==
    /\ ~HandlerIdle
    /\ mailApi' = << [mailApi[1] EXCEPT !.outcome = "ok"] >>
    /\ res' = Append(res, 200)
    /\ UNCHANGED <<req, handled, storeVars, now, formVars, searchVars, adminVars,
                   mailVars, console>>

\* the mail API call rejected: the catch block answers 500
HandlerSendFail ==
    /\ ~HandlerIdle
    /\ mailApi' = << [mailApi[1] EXCEPT !.outcome = "failed"] >>
    /\ res' = Append(res, 500)
    /\ console' = console \cup {"handler"}
    /\ UNCHANGED <<req, handled, storeVars, now, formVars, searchVars, adminVars,
                   mailVars>>

\* ------------------------------------------------------------ system
Init ==
    /\ bookings = <<>>
    /\ statusLookup = <<>>
    /\ now = 0
    /\ formData = EmptyForm
    /\ formError = "none"
    /\ formSuccess = <<>>
    /\ formLoading = FALSE
    /\ formPending = <<>>
    /\ formRetry = FALSE
    /\ searchTerm = <<>>
    /\ searchBooking = <<>>
    /\ searchError = "none"
    /\ searchLoading = FALSE
    /\ searchPending = <<>>
    /\ adminBookings = [a \in Admins |-> <<>>]
    /\ adminPending = [a \in Admins |-> <<>>]
    /\ adminError = [a \in Admins |-> "none"]
    /\ adminLoading = [a \in Admins |-> TRUE]
    /\ adminMounted = [a \in Admins |-> TRUE]
    /\ adminListening = [a \in Admins |-> TRUE]
    /\ emails = <<>>
    /\ emailWaiting = {}
    /\ console = {}
    /\ req = <<>>
    /\ res = <<>>
    /\ mailApi = <<>>
    /\ handled = 0

\* the booking form and one admin session
Next ==
    \/ \E fd \in FormInputs : SubmitInvalid(fd)
    \/ \E fd \in FormInputs, id \in generateApplicationId, t \in Times :
            SubmitStart(fd, id, t)
    \/ SubmitCommitOk
    \/ SubmitCommitFail
    \/ Snapshot(1)
    \/ \E i \in 1..MaxBookings, s \in StatusOptions : StatusChangeStart(1, i, s)
    \/ \E i \in 1..MaxBookings, s \in StatusOptions \cup {""} : StatusChangeIgnored(1, i, s)
    \/ StatusCommitOk(1)
    \/ StatusCommitFail(1)

Spec == Init /\ [][Next]_vars

\* two admin sessions working at the same time on what the form submitted:
\* session 1 approves, session 2 rejects or resets to Pending, so that the
\* template of a request tells which session committed; the clock stands
\* still
NextRace ==
    \/ \E fd \in FormInputs, id \in generateApplicationId :
            SubmitStart(fd, id, 0)
    \/ SubmitCommitOk
    \/ \E a \in Admins : Snapshot(a)
    \/ \E a \in Admins : SnapshotError(a)
    \/ \E i \in 1..MaxBookings : StatusChangeStart(1, i, "Approved")
    \/ \E i \in 1..MaxBookings, s \in {"Rejected", "Pending"} : StatusChangeStart(2, i, s)
    \/ \E a \in Admins : StatusCommitOk(a)
    \/ \E a \in Admins : StatusCommitFail(a)

SpecRace == Init /\ [][NextRace]_vars

\* the notifications of the form and of one admin session, with the
\* responses of the email endpoint; the clock stands still
NextNotify ==
    \/ \E fd \in FormInputs, id \in generateApplicationId :
            SubmitStart(fd, id, 0)
    \/ SubmitCommitOk
    \/ SubmitCommitFail
    \/ Snapshot(1)
    \/ \E i \in 1..MaxBookings, s \in StatusOptions : StatusChangeStart(1, i, s)
    \/ StatusCommitOk(1)
    \/ \E i \in 1..MaxEmails : EmailOk(i)
    \/ \E i \in 1..MaxEmails : EmailFail(i)

SpecNotify == Init /\ [][NextNotify]_vars

\* two admin sessions that can be unmounted, next to the form and the status
\* changes of session 1; the clock stands still
NextTeardown ==
    \/ \E fd \in FormInputs, id \in generateApplicationId :
            SubmitStart(fd, id, 0)
    \/ SubmitCommitOk
    \/ \E a \in Admins : Snapshot(a)
    \/ \E a \in Admins : SnapshotError(a)
    \/ \E a \in Admins : Unmount(a)
    \/ \E i \in 1..MaxBookings, s \in StatusOptions : StatusChangeStart(1, i, s)
    \/ StatusCommitOk(1)

SpecTeardown == Init /\ [][NextTeardown]_vars

\* the email endpoint, one request at a time
NextHandler ==
    \/ \E r \in Requests : HandlerReject(r)
    \/ \E r \in Requests : HandlerThrow(r)
    \/ \E r \in Requests : HandlerSend(r)
    \/ HandlerSendOk
    \/ HandlerSendFail

SpecHandler == Init /\ [][NextHandler]_vars

\* the status page next to the booking form and one admin session; the
\* clock, which the status page never reads, stands still
NextLookup ==
    \/ \E fd \in FormInputs, id \in generateApplicationId :
            SubmitStart(fd, id, 0)
    \/ SubmitCommitOk
    \/ Snapshot(1)
    \/ \E i \in 1..MaxBookings, s \in StatusOptions : StatusChangeStart(1, i, s)
    \/ StatusCommitOk(1)
    \/ \E t \in SearchTerms : SearchInvalidRef(t)
    \/ \E t \in SearchTerms : SearchStart(t)
    \/ SearchFound
    \/ SearchNotFound
    \/ SearchFail

SpecLookup == Init /\ [][NextLookup]_vars

\* =================================================================
\* Properties
\* =================================================================

\* no handler is suspended at `await batch.commit()`
NoCommitInFlight ==
    /\ formPending = <<>>
    /\ \A a \in Admins : adminPending[a] = <<>>

\* C1 -- pairing invariant: whenever no batch commit is in flight, every
\* Booking has a StatusLookup keyed by its applicationId (a collection holds
\* at most one document per key) and both carry the same status.
PairingInvariant ==
    NoCommitInFlight =>
        \A k \in DOMAIN bookings :
            /\ bookings[k].applicationId \in DOMAIN statusLookup
            /\ statusLookup[bookings[k].applicationId].status = bookings[k].status

\* the step in which handleSubmit's commit is rejected
SubmitFailed ==
    /\ formPending # <<>>
    /\ formPending' = <<>>
    /\ formError' = "persist"

TransitionConsistency ==
    [][\A a \in Admins :
          StatusCommitOk(a) =>
              LET op == adminPending[a][1]
              IN  /\ bookings'[op.booking.id].status = op.newStatus
                  /\ statusLookup'[op.booking.applicationId].status = op.newStatus
                  /\ LookupResult(statusLookup', op.booking.applicationId).status
                         = op.newStatus]_vars

\* an approval has been committed and notified, and both documents show it
ApprovalCommitted ==
    \E k \in DOMAIN bookings :
        /\ bookings[k].status = "Approved"
        /\ statusLookup[bookings[k].applicationId].status = "Approved"
        /\ \E i \in 1..Len(emails) :
              /\ emails[i].template = "booking_approved"
              /\ emails[i].applicationId = bookings[k].applicationId

\* C4 -- terminal states: once a Booking's stored status is Approved or
\* Rejected, no step changes it.
TerminalStatesFinal ==
    [][\A k \in DOMAIN bookings :
          bookings[k].status \in {"Approved", "Rejected"}
              => bookings'[k].status = bookings[k].status]_vars

\* C5 -- Pending is never the target of a transition: no committed
\* handleStatusChange writes status Pending to a Booking or a StatusLookup.
PendingNeverTarget ==
    [][\A a \in Admins :
          StatusCommitOk(a) =>
              LET op == adminPending[a][1]
              IN  /\ bookings'[op.booking.id].status # "Pending"
                  /\ statusLookup'[op.booking.applicationId].status # "Pending"]_vars

\* C6 -- rejection reason invariant: a Booking document carries a
\* rejectionReason field if and only if its status is Rejected.
RejectionReasonIffRejected ==
    \A k \in DOMAIN bookings :
        ("rejectionReason" \in DOMAIN bookings[k]) <=> (bookings[k].status = "Rejected")

\* C7 -- a transition to Rejected that carries no non-empty reason ends
\* without changing the Booking or the StatusLookup and without a
\* notification.
RejectWithoutReasonRefused ==
    [][\A a \in Admins :
          ( /\ adminPending[a] # <<>>
            /\ adminPending'[a] = <<>>
            /\ adminPending[a][1].newStatus = "Rejected"
            /\ ~( /\ "reason" \in DOMAIN adminPending[a][1]
                  /\ adminPending[a][1].reason # "" ) )
          => UNCHANGED <<bookings, statusLookup, emails>>]_vars

\* C8 -- date invariant: handleSubmit called with checkOut <= checkIn sets
\* the validation error and returns with no commit pending, no store write
\* and no notification; every stored Booking has checkOut > checkIn.
DateInvariant ==
    [][/\ \A fd \in FormInputs :
            ( /\ fd.checkOut <= fd.checkIn
              /\ \/ SubmitInvalid(fd)
                 \/ \E id \in generateApplicationId, t \in Times :
                        SubmitStart(fd, id, t) )
            => /\ formError' = "dates"
               /\ formSuccess' = <<>>
               /\ formLoading' = FALSE
               /\ formPending' = <<>>
               /\ UNCHANGED <<bookings, statusLookup, emails>>
       /\ \A k \in DOMAIN bookings' : bookings'[k].checkOut > bookings'[k].checkIn]_vars

\* an input with equal dates has been refused while the store holds a booking
DatesRefusedSeen ==
    /\ formError = "dates"
    /\ formData.checkOut = formData.checkIn
    /\ formData.checkIn # 0
    /\ formPending = <<>>
    /\ DOMAIN bookings # {}

\* the step in which handleSearch's getDoc call settles
SearchFinished ==
    /\ searchPending # <<>>
    /\ searchPending' = <<>>

\* no status change of application id has been committed
NoTransitionOn(id) ==
    \A i \in 1..Len(emails) :
        emails[i].applicationId = id => emails[i].template = "booking_submitted"

\* C9 -- submit then lookup: for a Booking submitted with applicationId id
\* and check-in d and not yet transitioned, a lookup of id that reads the
\* store returns status Pending and checkIn d.
SubmitThenLookup ==
    [][(SearchFinished /\ ~SearchFail) =>
          \A k \in DOMAIN bookings :
              ( /\ bookings[k].applicationId = searchPending[1]
                /\ NoTransitionOn(searchPending[1]) )
              => /\ searchBooking' # <<>>
                 /\ searchBooking'[1].status = "Pending"
                 /\ searchBooking'[1].checkIn = bookings[k].checkIn]_vars

\* C10 -- not-found is a normal result: a lookup whose read finds no
\* StatusLookup document ends with the not-found message and no booking;
\* every finished lookup has isLoading = false; a booking shown is the
\* document keyed by the trimmed search term.
LookupNotFoundIsNormal ==
    [][/\ (SearchFinished /\ ~SearchFail /\ searchPending[1] \notin DOMAIN statusLookup)
            => /\ searchError' = "notfound"
               /\ searchBooking' = <<>>
       /\ searchPending' = <<>> => searchLoading' = FALSE
       /\ searchBooking' # <<>>
            => /\ searchBooking'[1].applicationId = Trim(searchTerm')
               /\ Trim(searchTerm') \in DOMAIN statusLookup'
               /\ searchError' = "none"]_vars

\* a term with surrounding blanks was looked up in a populated store and
\* nothing was found
NotFoundSeen ==
    /\ searchError = "notfound"
    /\ searchBooking = <<>>
    /\ searchLoading = FALSE
    /\ searchPending = <<>>
    /\ searchTerm # Trim(searchTerm)
    /\ DOMAIN statusLookup # {}

\* C11 -- transition atomicity on failure: when the commit of
\* handleStatusChange is rejected, neither the Booking nor the StatusLookup
\* is modified and no notification is dispatched.
TransitionAtomicOnFailure ==
    [][\A a \in Admins :
          StatusCommitFail(a) =>
              /\ bookings' = bookings
              /\ statusLookup' = statusLookup
              /\ emails' = emails
              /\ emailWaiting' = emailWaiting]_vars

\* a status change has failed and the store holds only untouched bookings
TransitionFailureSeen ==
    /\ "status" \in console
    /\ \A a \in Admins : adminPending[a] = <<>>
    /\ DOMAIN bookings # {}
    /\ \A k \in DOMAIN bookings :
          /\ bookings[k].status = "Pending"
          /\ statusLookup[bookings[k].applicationId].status = "Pending"
    /\ \A i \in 1..Len(emails) : emails[i].template = "booking_submitted"

\* C12 -- duplicate identifier handling: a submit whose generated id already
\* keys a StatusLookup leaves that document as it was, and no two Bookings
\* in the store share an applicationId.
UniqueApplicationIds ==
    /\ \A k1, k2 \in DOMAIN bookings :
          bookings[k1].applicationId = bookings[k2].applicationId => k1 = k2
    /\ \A k \in DOMAIN bookings :
          /\ bookings[k].applicationId \in DOMAIN statusLookup
          /\ statusLookup[bookings[k].applicationId].checkIn = bookings[k].checkIn

\* C13 -- notification failure never fails the business operation: the
\* step in which an email request fails changes no store document, sets no
\* error state in the form or the dashboard and leaves the form's success
\* message in place.
NotificationFailureContained ==
    [][\A i \in 1..MaxEmails :
          EmailFail(i) =>
              /\ bookings' = bookings
              /\ statusLookup' = statusLookup
              /\ formError' = formError
              /\ formSuccess' = formSuccess
              /\ adminError' = adminError]_vars

\* the email of the one committed submit has failed and the form still
\* shows that submit's success message
SubmitEmailFailureSeen ==
    /\ Len(emails) = 1
    /\ emailWaiting = {}
    /\ "email" \in console
    /\ formSuccess = emails[1].applicationId
    /\ formError = "none"
    /\ \E k \in DOMAIN bookings : bookings[k].applicationId = emails[1].applicationId

\* the step commits the submit that request e announces
SubmitCommittedFor(e) ==
    /\ formPending # <<>>
    /\ formPending' = <<>>
    /\ formPending[1].docId \notin DOMAIN bookings
    /\ formPending[1].docId \in DOMAIN bookings'
    /\ bookings'[formPending[1].docId].applicationId = e.applicationId
    /\ e.applicationId \in DOMAIN statusLookup'
    /\ statusLookup'[e.applicationId] = [status |-> "Pending", checkIn |-> e.checkIn]

\* the step commits a status change of the application that request e names
TransitionCommittedFor(e) ==
    \E a \in Admins :
        /\ adminPending[a] # <<>>
        /\ adminPending'[a] = <<>>
        /\ adminPending[a][1].booking.applicationId = e.applicationId
        /\ bookings'[adminPending[a][1].booking.id].status = adminPending[a][1].newStatus
        /\ statusLookup'[e.applicationId].status = adminPending[a][1].newStatus

\* C14 -- notification is post-commit: an email request is made only in the
\* step in which the batch commit of the submit or status change it
\* announces succeeds; a rejected or still pending commit makes none.
NotificationPostCommit ==
    [][emails' # emails =>
          /\ Len(emails') = Len(emails) + 1
          /\ SubSeq(emails', 1, Len(emails)) = emails
          /\ LET e == emails'[Len(emails')]
             IN  IF e.template = "booking_submitted"
                 THEN SubmitCommittedFor(e)
                 ELSE TransitionCommittedFor(e)]_vars

\* a submit, an approval and a rejection were committed and announced, a
\* submit and a status change were rejected, and no other request was made
AllTemplatesSeen ==
    /\ NoCommitInFlight
    /\ Len(emails) = 3
    /\ {emails[i].template : i \in 1..Len(emails)}
           = {"booking_submitted", "booking_approved", "booking_rejected"}
    /\ {"submit", "status"} \subseteq console

\* C15 -- the template matches the committed status: the request made after
\* a committed status change uses 'booking_approved' only if the committed
\* status is Approved and 'booking_rejected' only if it is Rejected.
TemplateMatchesStatus ==
    [][\A a \in Admins :
          StatusCommitOk(a) =>
              LET op == adminPending[a][1]
                  e  == emails'[Len(emails')]
              IN  /\ e.template = "booking_approved"
                        => bookings'[op.booking.id].status = "Approved"
                  /\ e.template = "booking_rejected"
                        => bookings'[op.booking.id].status = "Rejected"]_vars

\* C16 -- retry after a failed submit: a rejected commit sets the
\* persistence error, shows no success message and keeps the inputs; when
\* the same inputs are submitted again and the commit succeeds, the store
\* holds exactly one Booking with the application's id and the StatusLookup
\* keyed by it is the application's.
RetryLeavesOnePair ==
    [][/\ SubmitCommitFail =>
            /\ formError' = "persist"
            /\ formSuccess' = <<>>
            /\ formData' = formData
            /\ formData'.email = formPending[1].data.email
            /\ formData'.checkIn = formPending[1].data.checkIn
            /\ formData'.checkOut = formPending[1].data.checkOut
       /\ (SubmitCommitOk /\ formRetry) =>
            LET data == formPending[1].data
            IN  /\ Cardinality({k \in DOMAIN bookings' :
                       bookings'[k].applicationId = data.applicationId}) = 1
                /\ data.applicationId \in DOMAIN statusLookup'
                /\ statusLookup'[data.applicationId] = LookupDoc(data)]_vars

\* the commit applied last was a status change of application id, announced
\* with a template other than tpl
ConflictsWithLast(id, tpl) ==
    /\ emails # <<>>
    /\ emails[Len(emails)].applicationId = id
    /\ emails[Len(emails)].template # "booking_submitted"
    /\ emails[Len(emails)].template # tpl

\* C17 -- concurrent admins, last write wins consistently: when a session
\* commits a status change that conflicts with the one another session
\* committed just before for the same application, the Booking and the
\* StatusLookup both carry the status of this last commit.
LastWriteWins ==
    [][\A a \in Admins :
          ( /\ StatusCommitOk(a)
            /\ ConflictsWithLast(adminPending[a][1].booking.applicationId,
                                 TransitionTemplate(adminPending[a][1].newStatus)) )
          => LET op == adminPending[a][1]
             IN  /\ bookings'[op.booking.id].status = op.newStatus
                 /\ statusLookup'[op.booking.applicationId].status = op.newStatus
                 /\ \A b \in Admins \ {a} : adminPending'[b] = adminPending[b]]_vars

\* both sessions saw the booking as Pending; session 1 approved it, session
\* 2 rejected it afterwards, and both documents say Rejected
RejectionWonRace ==
    /\ Len(emails) = 3
    /\ emails[2].template = "booking_approved"
    /\ emails[3].template = "booking_rejected"
    /\ emails[2].applicationId = emails[3].applicationId
    /\ \A a \in Admins :
          /\ adminPending[a] = <<>>
          /\ Len(adminBookings[a]) = 1
          /\ adminBookings[a][1].status = "Pending"
    /\ \A k \in DOMAIN bookings :
          /\ bookings[k].status = "Rejected"
          /\ statusLookup[bookings[k].applicationId].status = "Rejected"

\* C18 -- a failed transition is surfaced to the operator: when the commit
\* of handleStatusChange is rejected, the dashboard's error state is set.
FailedTransitionSurfaced ==
    [][\A a \in Admins :
          StatusCommitFail(a) => adminError'[a] # "none"]_vars

\* C19 -- no optimistic update: no step of handleStatusChange changes the
\* session's local bookings list; the list changes only in a step that
\* leaves the store alone and after which every row shows the status its
\* document has in the store.
NoOptimisticUpdate ==
    [][\A a \in Admins :
          /\ adminPending'[a] # adminPending[a] => adminBookings'[a] = adminBookings[a]
          /\ adminBookings'[a] # adminBookings[a] =>
                /\ bookings' = bookings
                /\ Len(adminBookings'[a]) = Cardinality(DOMAIN bookings)
                /\ \A i \in 1..Len(adminBookings'[a]) :
                      /\ adminBookings'[a][i].id \in DOMAIN bookings
                      /\ adminBookings'[a][i].status
                            = bookings[adminBookings'[a][i].id].status]_vars

\* an approval has been committed and the session that made it still shows
\* the booking as Pending, no snapshot having been delivered since
CommittedNotYetShown ==
    /\ adminPending[1] = <<>>
    /\ \E i \in 1..Len(adminBookings[1]) :
          /\ adminBookings[1][i].status = "Pending"
          /\ bookings[adminBookings[1][i].id].status = "Approved"
          /\ \E j \in 1..Len(emails) :
                /\ emails[j].template = "booking_approved"
                /\ emails[j].applicationId = adminBookings[1][i].applicationId

\* documents d and e differ at most in their status field
SameButStatus(d, e) ==
    /\ DOMAIN d = DOMAIN e
    /\ \A f \in DOMAIN d \ {"status"} : d[f] = e[f]

\* C20 -- transition frame: a committed handleStatusChange creates and
\* removes no document, changes nothing but the status field of its Booking
\* and of that Booking's StatusLookup, and leaves every other document as it
\* was; no step at all changes the applicationId or submittedAt of a Booking.
TransitionFrame ==
    [][/\ \A a \in Admins :
            StatusCommitOk(a) =>
                LET op == adminPending[a][1]
                IN  /\ DOMAIN bookings' = DOMAIN bookings
                    /\ DOMAIN statusLookup' = DOMAIN statusLookup
                    /\ \A k \in DOMAIN bookings :
                          /\ SameButStatus(bookings[k], bookings'[k])
                          /\ k # op.booking.id => bookings'[k] = bookings[k]
                    /\ \A id \in DOMAIN statusLookup :
                          /\ SameButStatus(statusLookup[id], statusLookup'[id])
                          /\ id # op.booking.applicationId
                                => statusLookup'[id] = statusLookup[id]
       /\ \A k \in DOMAIN bookings :
            /\ k \in DOMAIN bookings'
            /\ DOMAIN bookings'[k] = DOMAIN bookings[k]
            /\ bookings'[k].applicationId = bookings[k].applicationId
            /\ bookings'[k].submittedAt = bookings[k].submittedAt]_vars

\* a rejection has been committed: the Booking still has every field it was
\* submitted with and its StatusLookup still has its check-in day
RejectionKeptFields ==
    \E k \in DOMAIN bookings :
        /\ bookings[k].status = "Rejected"
        /\ DOMAIN bookings[k] = DOMAIN SubmitData(EmptyForm, <<1>>, 0)
        /\ bookings[k].email \in Emails
        /\ statusLookup[bookings[k].applicationId]
              = [status |-> "Rejected", checkIn |-> bookings[k].checkIn]
        /\ \E i \in 1..Len(emails) :
              /\ emails[i].template = "booking_rejected"
              /\ emails[i].applicationId = bookings[k].applicationId

\* C21 -- operation independence: a committed submit leaves every document
\* that was in the store as it was, and a committed status change leaves
\* every Booking but its own and every StatusLookup but the one keyed by
\* its own applicationId as it was; a Booking's StatusLookup is changed only
\* by a status change of that Booking.
OperationIndependence ==
    [][/\ SubmitCommitOk =>
            /\ \A k \in DOMAIN bookings : bookings'[k] = bookings[k]
            /\ \A id \in DOMAIN statusLookup : statusLookup'[id] = statusLookup[id]
       /\ \A a \in Admins :
            StatusCommitOk(a) =>
                LET op == adminPending[a][1]
                IN  /\ \A k \in DOMAIN bookings \ {op.booking.id} :
                          /\ bookings'[k] = bookings[k]
                          /\ statusLookup'[bookings[k].applicationId]
                                = statusLookup[bookings[k].applicationId]]_vars

\* C22 -- privacy of the public projection: every StatusLookup document
\* holds exactly the fields status and checkIn, and the booking a finished
\* lookup shows is made of the search key and of the status and checkIn of
\* the StatusLookup document under that key, of nothing else.
LookupPrivacy ==
    [][/\ \A id \in DOMAIN statusLookup' :
            DOMAIN statusLookup'[id] = {"status", "checkIn"}
       /\ (SearchFinished /\ searchBooking' # <<>>) =>
            searchBooking'[1] = [applicationId |-> searchPending[1],
                                 status        |-> statusLookup[searchPending[1]].status,
                                 checkIn       |-> statusLookup[searchPending[1]].checkIn]
       /\ searchBooking' # <<>> =>
            DOMAIN searchBooking'[1] = {"applicationId", "status", "checkIn"}]_vars

\* a lookup has found the status of a booking whose private document holds
\* the applicant's email
LookupFoundSeen ==
    /\ searchPending = <<>>
    /\ searchBooking # <<>>
    /\ \E k \in DOMAIN bookings :
          /\ bookings[k].applicationId = searchBooking[1].applicationId
          /\ bookings[k].email \in Emails
          /\ bookings[k].checkIn = searchBooking[1].checkIn

\* C23 -- snapshot handling: after a delivered snapshot the session's list
\* holds one row for every document of the collection and no other row,
\* each row equal to its document as the store has it, and the rows are in
\* descending order of submittedAt.  (A delivered snapshot always changes
\* the list or ends the loading state, which is tested first.)
SnapshotReplacesList ==
    [][\A a \in Admins :
          (/\ adminBookings'[a] # adminBookings[a] \/ adminLoading'[a] # adminLoading[a]
           /\ Snapshot(a)) =>
              LET rows == adminBookings'[a]
              IN  /\ Len(rows) = Cardinality(DOMAIN bookings)
                  /\ {rows[i].id : i \in 1..Len(rows)} = DOMAIN bookings
                  /\ \A i \in 1..Len(rows) :
                        /\ DOMAIN rows[i] = {"id"} \cup DOMAIN bookings[rows[i].id]
                        /\ \A f \in DOMAIN bookings[rows[i].id] :
                              rows[i][f] = bookings[rows[i].id][f]
                  /\ \A i, j \in 1..Len(rows) :
                        i < j => rows[i].submittedAt >= rows[j].submittedAt]_vars

\* a snapshot of two bookings was delivered and the one submitted later,
\* which comes second in the collection, is shown first
NewestShownFirst ==
    /\ Len(adminBookings[1]) = 2
    /\ adminBookings[1][1].id = 2
    /\ adminBookings[1][2].id = 1
    /\ adminBookings[1][1].submittedAt > adminBookings[1][2].submittedAt

\* C24 -- subscription teardown: the step that unmounts a dashboard
\* detaches its snapshot listener, and no step changes the bookings,
\* isLoading or error state of a dashboard that is unmounted.
TeardownDetaches ==
    [][\A a \in Admins :
          /\ (adminMounted[a] /\ ~adminMounted'[a]) => ~adminListening'[a]
          /\ ~adminMounted[a] =>
                /\ ~adminListening'[a]
                /\ adminBookings'[a] = adminBookings[a]
                /\ adminLoading'[a] = adminLoading[a]
                /\ adminError'[a] = adminError[a]]_vars

\* session 1 was unmounted with one booking in its list; the store has since
\* got a second booking, which session 2 shows and session 1 does not
UnmountedStaysBehind ==
    /\ ~adminMounted[1]
    /\ adminMounted[2]
    /\ adminError[1] = "none"
    /\ Len(adminBookings[1]) = 1
    /\ Len(adminBookings[2]) = 2
    /\ Cardinality(DOMAIN bookings) = 2

\* C25 -- exactly one dispatch, no retry: a committed submit or status
\* change makes exactly one email request, the one that announces it; there
\* are as many 'booking_submitted' requests as Bookings; a failed request is
\* logged and makes no new request, and a settled request is never pending
\* again.
OneDispatchNoRetry ==
    [][/\ SubmitCommitOk =>
            /\ emails' = Append(emails, SubmitEmail(formPending[1].data))
            /\ emailWaiting' = emailWaiting \cup {Len(emails')}
       /\ \A a \in Admins :
            StatusCommitOk(a) =>
                /\ emails' = Append(emails, TransitionEmail(adminPending[a][1]))
                /\ emailWaiting' = emailWaiting \cup {Len(emails')}
       /\ Cardinality({i \in 1..Len(emails') : emails'[i].template = "booking_submitted"})
             = Cardinality(DOMAIN bookings')
       /\ \A i \in 1..MaxEmails :
            EmailFail(i) =>
                /\ emails' = emails
                /\ emailWaiting' = emailWaiting \ {i}
                /\ "email" \in console'
       /\ \A i \in 1..Len(emails) : i \notin emailWaiting => i \notin emailWaiting']_vars

\* a submit and an approval were committed, two requests were made, both
\* have settled and at least one of them failed
FailedRequestNotRepeated ==
    /\ NoCommitInFlight
    /\ Cardinality(DOMAIN bookings) = 1
    /\ \E k \in DOMAIN bookings : bookings[k].status = "Approved"
    /\ Len(emails) = 2
    /\ emailWaiting = {}
    /\ "email" \in console

\* C26 -- submit always finishes and is not delayed by the notification:
\* the step that ends a call of handleSubmit, be it a refused input, a
\* rejected commit or an accepted one, leaves isLoading false; the step of
\* the accepted commit shows the success message while the email request it
\* made is still outstanding.
SubmitFinishes ==
    [][/\ ( \/ \E fd \in FormInputs : SubmitInvalid(fd)
            \/ SubmitCommitOk
            \/ SubmitCommitFail )
          => /\ formLoading' = FALSE
             /\ formPending' = <<>>
       /\ SubmitCommitOk =>
             /\ formSuccess' = formPending[1].data.applicationId
             /\ formError' = "none"
             /\ Len(emails') \in emailWaiting'
       /\ formPending' = <<>> => formLoading' = FALSE]_vars

\* the form shows the success message of a submit whose email request has
\* not settled
SuccessShownEmailOutstanding ==
    /\ formPending = <<>>
    /\ formLoading = FALSE
    /\ formSuccess # <<>>
    /\ \E i \in emailWaiting :
          /\ emails[i].template = "booking_submitted"
          /\ emails[i].applicationId = formSuccess

\* C27 -- no-op transitions are ignored: a call of handleStatusChange with
\* an empty status, or with the status the booking has in the session's
\* local list, writes nothing, makes no email request, starts no commit and
\* leaves the store and the list as they were.
NoOpTransitionIgnored ==
    [][\A a \in Admins, i \in 1..MaxBookings, s \in StatusOptions \cup {""} :
          ( /\ i <= Len(adminBookings[a])
            /\ s = "" \/ s = adminBookings[a][i].status
            /\ StatusChangeStart(a, i, s) \/ StatusChangeIgnored(a, i, s) )
          => /\ UNCHANGED <<bookings, statusLookup, emails, emailWaiting>>
             /\ UNCHANGED <<adminBookings, adminPending, adminError>>]_vars

\* the session's list shows a booking as Approved, the store has it as
\* Rejected, and picking Approved again is ignored
StaleNoOpPossible ==
    /\ adminPending[1] = <<>>
    /\ Len(adminBookings[1]) = 1
    /\ adminBookings[1][1].status = "Approved"
    /\ bookings[adminBookings[1][1].id].status = "Rejected"
    /\ IgnoredChange(adminBookings[1][1], "Approved")

\* C28 -- at most one notification per real status change: a committed
\* status change makes an email request only if it changed the stored status
\* of its Booking to a different value.
NotifyOnlyRealChange ==
    [][\A a \in Admins :
          (StatusCommitOk(a) /\ emails' # emails) =>
              bookings'[adminPending[a][1].booking.id].status
                  # bookings[adminPending[a][1].booking.id].status]_vars

\* C29 -- email handler outcome: for the request in hand or last handled,
\* the mail API is called at most once, only for a POST whose template is
\* booking_submitted, booking_approved or booking_rejected, with template
\* id 1, 2 or 3 respectively; while the call is awaited nothing is sent;
\* once the handler has finished exactly one response was sent: 405 for a
\* request that is not a POST, 200 exactly when the mail API call succeeded,
\* 500 otherwise.
HandlerOutcome ==
    req # <<>> =>
        /\ Len(mailApi) <= 1
        /\ mailApi # <<>> =>
              /\ req[1].method = "POST"
              /\ req[1].body # <<>>
              /\ mailApi[1].to = req[1].body[1].to
              /\ \/ req[1].body[1].template = "booking_submitted" /\ mailApi[1].templateId = 1
                 \/ req[1].body[1].template = "booking_approved"  /\ mailApi[1].templateId = 2
                 \/ req[1].body[1].template = "booking_rejected"  /\ mailApi[1].templateId = 3
        /\ IF HandlerIdle
           THEN /\ Len(res) = 1
                /\ req[1].method # "POST" => res[1] = 405 /\ mailApi = <<>>
                /\ req[1].method = "POST" =>
                      /\ res[1] \in {200, 500}
                      /\ res[1] = 200 <=> (mailApi # <<>> /\ mailApi[1].outcome = "ok")
           ELSE res = <<>>

\* the second request was a POST for a rejection: the mail API was called
\* with template id 3, the call failed and the answer was 500
RejectionMailFailed ==
    /\ handled = 2
    /\ req # <<>>
    /\ req[1].method = "POST"
    /\ req[1].body # <<>>
    /\ req[1].body[1].template = "booking_rejected"
    /\ mailApi # <<>>
    /\ mailApi[1].templateId = 3
    /\ mailApi[1].outcome = "failed"
    /\ res = <<500>>

====
